---- MODULE Spec2Model ----
(***************************************************************************)
(* State-machine model of scripts/utils.py (Cloud Advanced Downloader):    *)
(*   - DownloadExecutor: add_task and the four engine adapters             *)
(*     execute_aria2 / execute_wget / execute_curl / execute_mega, each    *)
(*     broken into the statements that assign a DownloadTask field;        *)
(*   - DownloadProgress: add_callback, update, get_progress;               *)
(*   - the output directory: ensure_dir, DownloadExecutor.__init__;        *)
(*   - the aria2 RPC functions: aria2_rpc_call and the three built on it;  *)
(*   - the string utilities validate_url and clean_filename.               *)
(* Optional values (Python None) are sequences of length 0 or 1.           *)
(***************************************************************************)
EXTENDS Integers, Sequences, FiniteSets, TLC

VARIABLES
    tasks,      \* DownloadExecutor.tasks: sequence of DownloadTask records
    pc,         \* position of the running execute_* call ("idle": none)
    adapter,    \* which execute_* method is (or was last) running
    cur,        \* index in tasks of the task passed to that call
    ret,        \* how the last call ended: "none", "True", "False", "raised"
    exc,        \* the exception being handled in the call (None / Some(msg))
    launched,   \* executables started by the current call
    probe,      \* return code of `which megadl` in the call (None / Some(rc))
    result,     \* exit of the engine process (None / Some([returncode, stderr]))
    nlines,     \* lines of aria2c output consumed by the call
    \* ---- DownloadProgress ----
    total,      \* self.total
    current,    \* self.current
    callbacks,  \* self.callbacks: sequence of observers
    lock,       \* self._lock: None, or Some(thread holding it)
    upc,        \* per producer thread: position inside update()
    un,         \* per producer thread: argument n of its update() call
    ucall,      \* per producer thread: number of its update() call
    uidx,       \* per producer thread: index of the callback loop
    usnap,      \* per producer thread: the progress dict it built
    uret,       \* per producer thread: "none", "returned", "raised"
    uncb,       \* per producer thread: len(callbacks) when its loop ended
    nupdates,   \* update() calls made so far
    incs,       \* the increments applied to current, in order
    log,        \* callback invocations, in order
    gpc,        \* position of the reader inside get_progress()
    gl,         \* locals of that get_progress() call
    gret,       \* dict returned by the last get_progress() (None / Some)
    start_time, \* self.start_time
    uload,      \* per producer thread: self.current as loaded by `+=`
    \* ---- file system and DownloadExecutor.download_dir ----
    download_dir,   \* self.download_dir
    dirs,           \* directories that exist
    \* ---- aria2 RPC functions ----
    rop,        \* RPC function called: "none" or its name
    rpc,        \* position inside aria2_rpc_call
    response,   \* what requests.post returned (None / Some([status_code, body]))
    rresult,    \* what aria2_rpc_call returned to the function (None / Some)
    rret,       \* outcome of the function: <<>>, <<"returned", v>>, <<"raised">>
    \* ---- pure utility functions ----
    fn,         \* function applied: "none", "clean_filename", "validate_url"
    arg,        \* its argument, a sequence of characters
    out         \* its result (None until it is applied)

execVars == <<tasks, pc, adapter, cur, ret, exc, launched, probe, result, nlines>>

progVars ==
    <<total, current, callbacks, lock, upc, un, ucall, uidx, usnap,
      uret, uncb, nupdates, incs, log, gpc, gl, gret, start_time, uload>>

fsVars == <<download_dir, dirs>>

rpcVars == <<rop, rpc, response, rresult, rret>>

utilVars == <<fn, arg, out>>

\* What the actions of one component leave alone.
nonExecVars == <<progVars, fsVars, rpcVars, utilVars>>
nonProgVars == <<execVars, fsVars, rpcVars, utilVars>>

vars == <<execVars, progVars, fsVars, rpcVars, utilVars>>

(***************************************************************************)
(* Bounds of the model                                                     *)
(***************************************************************************)
MaxTasks == 1
MaxLines == 2
MaxUpdates == 2     \* update() calls made on a tracker
MaxCallbacks == 2   \* observers registered on a tracker

(***************************************************************************)
(* Values                                                                  *)
(***************************************************************************)
None == <<>>
Some(v) == <<v>>

\* Exit codes an external process may report.
ExitCodes == {0, 1}
\* Text a process may leave on its captured stderr (possibly nothing).
StderrTexts == {"", "ERROR 404: Not Found."}
\* str(e) of an OSError raised by subprocess when the launch fails.
ExcMessages ==
    {"[Errno 2] No such file or directory", "[Errno 13] Permission denied"}

\* Engine identifiers are sequences of characters, so that str.lower() is
\* computed and not assumed.
UpperCase ==
    <<"A","B","C","D","E","F","G","H","I","J","K","L","M",
      "N","O","P","Q","R","S","T","U","V","W","X","Y","Z">>
LowerCase ==
    <<"a","b","c","d","e","f","g","h","i","j","k","l","m",
      "n","o","p","q","r","s","t","u","v","w","x","y","z">>

LowerChar(c) ==
    IF \E k \in DOMAIN UpperCase : UpperCase[k] = c
    THEN LowerCase[CHOOSE k \in DOMAIN UpperCase : UpperCase[k] = c]
    ELSE c

lower(s) == [k \in DOMAIN s |-> LowerChar(s[k])]

\* Keys of the ENGINES catalog.
ENGINES ==
    { <<"a","r","i","a","2">>, <<"w","g","e","t">>,
      <<"c","u","r","l">>, <<"m","e","g","a">> }

\* Engine strings a caller may pass to add_task.
EngineInputs ==
    { <<"W","g","e","t">>, <<"m","e","g","a">>,
      <<"u","n","k","n","o","w","n","-","e","n","g","i","n","e">> }

\* DownloadTask(url, engine, output_name) with the dataclass defaults.
DownloadTask(engine) ==
    [engine |-> engine, status |-> "pending", progress |-> 0, error |-> None]

\* f"Exit code: {process.returncode}"
ExitCodeMsg(rc) == "Exit code: " \o ToString(rc)

MegaMissingMsg == "megatools not installed"

(***************************************************************************)
(* DownloadExecutor.__init__ : no task, no call running                    *)
(***************************************************************************)
ExecInit ==
    /\ tasks = <<>>
    /\ pc = "idle"
    /\ adapter = "none"
    /\ cur = 0
    /\ ret = "none"
    /\ exc = None
    /\ launched = {}
    /\ probe = None
    /\ result = None
    /\ nlines = 0

\* Paths are sequences of components: "/content/download" is
\* <<"content", "download">> and "/" is <<>>.
DEFAULT_DOWNLOAD_DIR == <<"content", "download">>

\* The directories of a fresh machine: only the root.
Root == {<<>>}

\* Path(directory).mkdir(parents=True, exist_ok=True): the directory and
\* every missing ancestor are created, existing ones are left alone.
ensure_dir(ds, directory) ==
    ds \cup {SubSeq(directory, 1, k) : k \in 0..Len(directory)}

\* init_environment(), run when the module is imported.
init_environment(ds) == ensure_dir(ds, DEFAULT_DOWNLOAD_DIR)

\* The download_dir arguments a caller may construct the executor with:
\* none, a directory that does not exist, a directory that exists.
DirArgs == {None, Some(<<"content", "custom">>), Some(<<"content">>)}

\* The module is imported on a machine with directories ds, then
\* DownloadExecutor(download_dir) runs
\*     self.download_dir = download_dir or get_download_dir()
\* where get_download_dir() ensures the default directory and returns it.
DownloadExecutor_init(ds, a) ==
    IF a # None
    THEN /\ download_dir = a[1]
         /\ dirs = init_environment(ds)
    ELSE /\ download_dir = DEFAULT_DOWNLOAD_DIR
         /\ dirs = ensure_dir(init_environment(ds), DEFAULT_DOWNLOAD_DIR)

\* DownloadExecutor() constructed without a download_dir.
FsInit == DownloadExecutor_init(Root, None)

\* No RPC function has been called.
RpcInit ==
    /\ rop = "none"
    /\ rpc = "idle"
    /\ response = None
    /\ rresult = None
    /\ rret = <<>>

\* No utility function has been applied.
UtilInit ==
    /\ fn = "none"
    /\ arg = <<>>
    /\ out = None

(***************************************************************************)
(* add_task                                                                *)
(***************************************************************************)
add_task(engine) ==
    /\ pc = "idle"
    /\ Len(tasks) < MaxTasks
    /\ tasks' = Append(tasks, DownloadTask(lower(engine)))
    /\ UNCHANGED <<pc, adapter, cur, ret, exc, launched, probe, result, nlines>>
    /\ UNCHANGED nonExecVars

(***************************************************************************)
(* Statements shared by the four adapters (the code repeats them verbatim) *)
(***************************************************************************)
\* Variant of Begin: the adapter does not mark the task as downloading.
Begin_NoStatus(a, i) ==
    /\ pc = "idle"
    /\ i \in DOMAIN tasks
    /\ pc' = IF a = "mega" THEN "probe" ELSE "launch"
    /\ adapter' = a
    /\ cur' = i
    /\ ret' = "none"
    /\ exc' = None
    /\ launched' = {}
    /\ probe' = None
    /\ result' = None
    /\ nlines' = 0
    /\ UNCHANGED tasks
    /\ UNCHANGED nonExecVars

\* Entry of execute_*: try: task.status = "downloading"
Begin(a, i) ==
    /\ pc = "idle"
    /\ i \in DOMAIN tasks
    /\ tasks' = [tasks EXCEPT ![i].status = "downloading"]
    /\ pc' = IF a = "mega" THEN "probe" ELSE "launch"
    /\ adapter' = a
    /\ cur' = i
    /\ ret' = "none"
    /\ exc' = None
    /\ launched' = {}
    /\ probe' = None
    /\ result' = None
    /\ nlines' = 0
    /\ UNCHANGED nonExecVars

\* An exception e with str(e) = msg is raised inside the try block.
Raise(msg) ==
    /\ exc' = Some(msg)
    /\ pc' = "except"

\* Variant of OnExit: a non-zero exit code leaves the status as it is.
OnExit_SuccessOnly(a) ==
    /\ pc = "exited"
    /\ adapter = a
    /\ IF result[1].returncode = 0
       THEN /\ tasks' = [tasks EXCEPT ![cur].status = "completed"]
            /\ pc' = "ok_progress"
       ELSE /\ tasks' = tasks
            /\ pc' = "fail_error"
    /\ UNCHANGED <<adapter, cur, ret, exc, launched, probe, result, nlines>>
    /\ UNCHANGED nonExecVars

\* if returncode == 0: task.status = "completed" / else: task.status = "failed"
OnExit(a) ==
    /\ pc = "exited"
    /\ adapter = a
    /\ IF result[1].returncode = 0
       THEN /\ tasks' = [tasks EXCEPT ![cur].status = "completed"]
            /\ pc' = "ok_progress"
       ELSE /\ tasks' = [tasks EXCEPT ![cur].status = "failed"]
            /\ pc' = "fail_error"
    /\ UNCHANGED <<adapter, cur, ret, exc, launched, probe, result, nlines>>
    /\ UNCHANGED nonExecVars

\* task.progress = 100.0; return True
OkProgress(a) ==
    /\ pc = "ok_progress"
    /\ adapter = a
    /\ tasks' = [tasks EXCEPT ![cur].progress = 100]
    /\ pc' = "idle"
    /\ ret' = "True"
    /\ UNCHANGED <<adapter, cur, exc, launched, probe, result, nlines>>
    /\ UNCHANGED nonExecVars

\* task.error = <msg>; return False
FailError(a, msg) ==
    /\ pc = "fail_error"
    /\ adapter = a
    /\ tasks' = [tasks EXCEPT ![cur].error = Some(msg)]
    /\ pc' = "idle"
    /\ ret' = "False"
    /\ UNCHANGED <<adapter, cur, exc, launched, probe, result, nlines>>
    /\ UNCHANGED nonExecVars

\* except Exception as e: task.status = "failed"
ExceptStatus(a) ==
    /\ pc = "except"
    /\ adapter = a
    /\ tasks' = [tasks EXCEPT ![cur].status = "failed"]
    /\ pc' = "except_error"
    /\ UNCHANGED <<adapter, cur, ret, exc, launched, probe, result, nlines>>
    /\ UNCHANGED nonExecVars

\* Variant of ExceptError: the handler forgets task.error.
ExceptError_NoError(a) ==
    /\ pc = "except_error"
    /\ adapter = a
    /\ pc' = "idle"
    /\ ret' = "False"
    /\ UNCHANGED <<tasks, adapter, cur, exc, launched, probe, result, nlines>>
    /\ UNCHANGED nonExecVars

\* task.error = str(e); return False
ExceptError(a) ==
    /\ pc = "except_error"
    /\ adapter = a
    /\ tasks' = [tasks EXCEPT ![cur].error = Some(exc[1])]
    /\ pc' = "idle"
    /\ ret' = "False"
    /\ UNCHANGED <<adapter, cur, exc, launched, probe, result, nlines>>
    /\ UNCHANGED nonExecVars

\* result = subprocess.run(cmd, capture_output=True, text=True)
Run(a, exe) ==
    /\ pc = "launch"
    /\ adapter = a
    /\ \/ \E msg \in ExcMessages :
            /\ Raise(msg)
            /\ UNCHANGED <<launched, result>>
       \/ \E rc \in ExitCodes, err \in StderrTexts :
            /\ launched' = launched \cup {exe}
            /\ result' = Some([returncode |-> rc, stderr |-> Some(err)])
            /\ pc' = "exited"
            /\ UNCHANGED exc
    /\ UNCHANGED <<tasks, adapter, cur, ret, probe, nlines>>
    /\ UNCHANGED nonExecVars

(***************************************************************************)
(* execute_aria2                                                           *)
(***************************************************************************)
execute_aria2_begin == \E i \in DOMAIN tasks : Begin("aria2", i)

\* process = subprocess.Popen(cmd, stdout=PIPE, stderr=STDOUT, ...)
execute_aria2_popen ==
    /\ pc = "launch"
    /\ adapter = "aria2"
    /\ \/ \E msg \in ExcMessages :
            /\ Raise(msg)
            /\ UNCHANGED launched
       \/ /\ launched' = launched \cup {"aria2c"}
          /\ pc' = "read"
          /\ UNCHANGED exc
    /\ UNCHANGED <<tasks, adapter, cur, ret, probe, result, nlines>>
    /\ UNCHANGED nonExecVars

\* for line in process.stdout: if "Download complete" in line: progress = 100.0
execute_aria2_line ==
    /\ pc = "read"
    /\ adapter = "aria2"
    /\ \/ \E marker \in BOOLEAN :
            /\ nlines < MaxLines
            /\ nlines' = nlines + 1
            /\ tasks' = IF marker
                        THEN [tasks EXCEPT ![cur].progress = 100]
                        ELSE tasks
            /\ UNCHANGED <<pc, exc>>
       \/ \E msg \in ExcMessages :      \* the stream cannot be decoded
            /\ Raise(msg)
            /\ UNCHANGED <<tasks, nlines>>
       \/ /\ pc' = "wait"               \* end of the stream
          /\ UNCHANGED <<tasks, nlines, exc>>
    /\ UNCHANGED <<adapter, cur, ret, launched, probe, result>>
    /\ UNCHANGED nonExecVars

\* process.wait(); stderr was merged into the discarded stdout
execute_aria2_wait ==
    /\ pc = "wait"
    /\ adapter = "aria2"
    /\ \E rc \in ExitCodes :
            result' = Some([returncode |-> rc, stderr |-> None])
    /\ pc' = "exited"
    /\ UNCHANGED <<tasks, adapter, cur, ret, exc, launched, probe, nlines>>
    /\ UNCHANGED nonExecVars

execute_aria2_exit == OnExit("aria2")

execute_aria2_ok == OkProgress("aria2")

\* task.error = f"Exit code: {process.returncode}"
execute_aria2_fail == FailError("aria2", ExitCodeMsg(result[1].returncode))

execute_aria2_except == ExceptStatus("aria2") \/ ExceptError("aria2")

execute_aria2 ==
    \/ execute_aria2_begin
    \/ execute_aria2_popen
    \/ execute_aria2_line
    \/ execute_aria2_wait
    \/ execute_aria2_exit
    \/ execute_aria2_ok
    \/ execute_aria2_fail
    \/ execute_aria2_except

(***************************************************************************)
(* execute_wget                                                            *)
(***************************************************************************)
execute_wget_begin == \E i \in DOMAIN tasks : Begin("wget", i)

execute_wget_run == Run("wget", "wget")

execute_wget_exit == OnExit("wget")

execute_wget_ok == OkProgress("wget")

\* task.error = result.stderr
execute_wget_fail == FailError("wget", result[1].stderr[1])

execute_wget_except == ExceptStatus("wget") \/ ExceptError("wget")

execute_wget ==
    \/ execute_wget_begin
    \/ execute_wget_run
    \/ execute_wget_exit
    \/ execute_wget_ok
    \/ execute_wget_fail
    \/ execute_wget_except

(***************************************************************************)
(* execute_curl                                                            *)
(***************************************************************************)
execute_curl_begin == \E i \in DOMAIN tasks : Begin("curl", i)

execute_curl_run == Run("curl", "curl")

execute_curl_exit == OnExit("curl")

execute_curl_ok == OkProgress("curl")

\* task.error = result.stderr
execute_curl_fail == FailError("curl", result[1].stderr[1])

execute_curl_except == ExceptStatus("curl") \/ ExceptError("curl")

execute_curl ==
    \/ execute_curl_begin
    \/ execute_curl_run
    \/ execute_curl_exit
    \/ execute_curl_ok
    \/ execute_curl_fail
    \/ execute_curl_except

(***************************************************************************)
(* execute_mega                                                            *)
(***************************************************************************)
execute_mega_begin == \E i \in DOMAIN tasks : Begin("mega", i)

\* Variant of execute_mega_which: the return code of the probe is ignored.
execute_mega_which_unchecked ==
    /\ pc = "probe"
    /\ adapter = "mega"
    /\ \/ \E msg \in ExcMessages :
            /\ Raise(msg)
            /\ UNCHANGED <<launched, probe>>
       \/ \E rc \in ExitCodes :
            /\ launched' = launched \cup {"which"}
            /\ probe' = Some(rc)
            /\ pc' = "launch"
            /\ UNCHANGED exc
    /\ UNCHANGED <<tasks, adapter, cur, ret, result, nlines>>
    /\ UNCHANGED nonExecVars

\* if subprocess.run(["which", "megadl"], capture_output=True).returncode == 0:
execute_mega_which ==
    /\ pc = "probe"
    /\ adapter = "mega"
    /\ \/ \E msg \in ExcMessages :
            /\ Raise(msg)
            /\ UNCHANGED <<launched, probe>>
       \/ \E rc \in ExitCodes :
            /\ launched' = launched \cup {"which"}
            /\ probe' = Some(rc)
            /\ pc' = IF rc = 0 THEN "launch" ELSE "absent_error"
            /\ UNCHANGED exc
    /\ UNCHANGED <<tasks, adapter, cur, ret, result, nlines>>
    /\ UNCHANGED nonExecVars

execute_mega_run == Run("mega", "megadl")

execute_mega_exit == OnExit("mega")

execute_mega_ok == OkProgress("mega")

\* task.error = result.stderr
execute_mega_fail == FailError("mega", result[1].stderr[1])

\* else: task.error = "megatools not installed"
execute_mega_absent_error ==
    /\ pc = "absent_error"
    /\ adapter = "mega"
    /\ tasks' = [tasks EXCEPT ![cur].error = Some(MegaMissingMsg)]
    /\ pc' = "absent_status"
    /\ UNCHANGED <<adapter, cur, ret, exc, launched, probe, result, nlines>>
    /\ UNCHANGED nonExecVars

\* task.status = "failed"; return False
execute_mega_absent_status ==
    /\ pc = "absent_status"
    /\ adapter = "mega"
    /\ tasks' = [tasks EXCEPT ![cur].status = "failed"]
    /\ pc' = "idle"
    /\ ret' = "False"
    /\ UNCHANGED <<adapter, cur, exc, launched, probe, result, nlines>>
    /\ UNCHANGED nonExecVars

execute_mega_except == ExceptStatus("mega") \/ ExceptError("mega")

execute_mega ==
    \/ execute_mega_begin
    \/ execute_mega_which
    \/ execute_mega_run
    \/ execute_mega_exit
    \/ execute_mega_ok
    \/ execute_mega_fail
    \/ execute_mega_absent_error
    \/ execute_mega_absent_status
    \/ execute_mega_except

(***************************************************************************)
(* DownloadProgress                                                        *)
(***************************************************************************)
\* Threads calling update(); get_progress() is called by a separate reader.
Producers == {"p1", "p2"}

\* Observers a caller may register: "good" returns, "bad" raises every time.
Observers == {"good", "bad"}

\* Arguments passed to update(n).
Amounts == {1, -1}

\* Values time.time() - self.start_time may take when it is read.  The wall
\* clock is not monotonic, so every read draws one of them.
Elapsed == {0, 2}

\* Readings of time.time().
Clock == {start_time + e : e \in Elapsed}

\* Totals a tracker may be constructed with (0: unknown).
Totals == 0..MaxUpdates

RECURSIVE GCD(_, _)
GCD(a, b) == IF b = 0 THEN a ELSE GCD(b, a % b)

Abs(a) == IF a < 0 THEN 0 - a ELSE a

\* The quotient a / b (b > 0) as a fraction in lowest terms <<num, den>>.
\* Python computes it in double precision; for the counters modelled here
\* (far below 2^53) a float result equals 0.0 or 100.0 exactly when the
\* fraction equals 0 or 100.
Frac(a, b) ==
    LET g == GCD(Abs(a), b)
    IN  <<a \div g, b \div g>>

Zero == <<0, 1>>

\* Variant of Percentage: the ratio is not scaled to percent.
Percentage_Ratio(c, t) == IF t > 0 THEN Frac(c, t) ELSE Zero

\* (self.current / self.total * 100) if self.total > 0 else 0
Percentage(c, t) == IF t > 0 THEN Frac(c * 100, t) ELSE Zero

\* self.current / elapsed if elapsed > 0 else 0
Speed(c, elapsed) == IF elapsed > 0 THEN Frac(c, elapsed) ELSE Zero

NoSnap == [current |-> 0, total |-> 0, percentage |-> Zero,
           speed |-> Zero, elapsed |-> 0]

\* DownloadProgress.__init__(total)
ProgInit(t) ==
    /\ total = t
    /\ current = 0
    /\ callbacks = <<>>
    /\ lock = None
    /\ upc = [p \in Producers |-> "idle"]
    /\ un = [p \in Producers |-> 0]
    /\ ucall = [p \in Producers |-> 0]
    /\ uidx = [p \in Producers |-> 0]
    /\ usnap = [p \in Producers |-> NoSnap]
    /\ uret = [p \in Producers |-> "none"]
    /\ uncb = [p \in Producers |-> 0]
    /\ nupdates = 0
    /\ incs = <<>>
    /\ log = <<>>
    /\ gpc = "idle"
    /\ gl = NoSnap
    /\ gret = None
    /\ start_time = 0
    /\ uload = [p \in Producers |-> 0]

\* self.callbacks.append(callback)
add_callback(o) ==
    /\ Len(callbacks) < MaxCallbacks
    /\ callbacks' = Append(callbacks, o)
    /\ UNCHANGED <<total, start_time, uload, current, lock, upc, un, ucall, uidx, usnap,
                   uret, uncb, nupdates, incs, log, gpc, gl, gret>>
    /\ UNCHANGED nonProgVars

\* A producer calls update(n) and waits for the lock.
update_call(p, n) ==
    /\ upc[p] = "idle"
    /\ nupdates < MaxUpdates
    /\ nupdates' = nupdates + 1
    /\ upc' = [upc EXCEPT ![p] = "acquire"]
    /\ un' = [un EXCEPT ![p] = n]
    /\ ucall' = [ucall EXCEPT ![p] = nupdates + 1]
    /\ uret' = [uret EXCEPT ![p] = "none"]
    /\ UNCHANGED <<total, start_time, uload, current, callbacks, lock, uidx, usnap, uncb,
                   incs, log, gpc, gl, gret>>
    /\ UNCHANGED nonProgVars

\* Variant of update_acquire: update enters its body without waiting for
\* the lock to be free.
update_acquire_nolock(p) ==
    /\ upc[p] = "acquire"
    /\ lock' = Some(p)
    /\ upc' = [upc EXCEPT ![p] = "load"]
    /\ UNCHANGED <<total, start_time, uload, current, callbacks, un, ucall, uidx, usnap,
                   uret, uncb, nupdates, incs, log, gpc, gl, gret>>
    /\ UNCHANGED nonProgVars

\* with self._lock:
update_acquire(p) ==
    /\ upc[p] = "acquire"
    /\ lock = None
    /\ lock' = Some(p)
    /\ upc' = [upc EXCEPT ![p] = "load"]
    /\ UNCHANGED <<total, start_time, uload, current, callbacks, un, ucall, uidx, usnap,
                   uret, uncb, nupdates, incs, log, gpc, gl, gret>>
    /\ UNCHANGED nonProgVars

\* self.current += n, first half: the value of self.current is loaded.
update_load(p) ==
    /\ upc[p] = "load"
    /\ uload' = [uload EXCEPT ![p] = current]
    /\ upc' = [upc EXCEPT ![p] = "incr"]
    /\ UNCHANGED <<total, start_time, current, callbacks, lock, un, ucall,
                   uidx, usnap, uret, uncb, nupdates, incs, log, gpc, gl, gret>>
    /\ UNCHANGED nonProgVars

\* self.current += n, second half: the sum is stored;
\* elapsed = ...; speed = ...; progress = {...}
update_incr(p) ==
    /\ upc[p] = "incr"
    /\ current' = uload[p] + un[p]
    /\ uload' = [uload EXCEPT ![p] = 0]
    /\ incs' = Append(incs, un[p])
    /\ \E t \in Clock :
          LET elapsed == t - start_time
          IN  usnap' = [usnap EXCEPT ![p] =
                          [current |-> current', total |-> total,
                           percentage |-> Percentage(current', total),
                           speed |-> Speed(current', elapsed),
                           elapsed |-> elapsed]]
    /\ uidx' = [uidx EXCEPT ![p] = 1]
    /\ upc' = [upc EXCEPT ![p] = "notify"]
    /\ UNCHANGED <<total, start_time, callbacks, lock, un, ucall, uret, uncb,
                   nupdates, log, gpc, gl, gret>>
    /\ UNCHANGED nonProgVars

\* Variant of AfterCallback: no try/except around the callback, so an
\* exception leaves the loop and the with block, and reaches the caller.
AfterCallback_Propagates(p, raised) ==
    IF raised
    THEN /\ upc' = [upc EXCEPT ![p] = "idle"]
         /\ uret' = [uret EXCEPT ![p] = "raised"]
         /\ lock' = None
         /\ UNCHANGED <<uidx, uncb>>
    ELSE /\ uidx' = [uidx EXCEPT ![p] = uidx[p] + 1]
         /\ UNCHANGED <<upc, uret, uncb, lock>>

\* What follows callback(progress) inside the loop: the observer returned,
\* or it raised and `except Exception: pass` swallowed the exception; either
\* way the loop goes on with the next callback.
AfterCallback(p, raised) ==
    /\ uidx' = [uidx EXCEPT ![p] = uidx[p] + 1]
    /\ UNCHANGED <<upc, uret, uncb, lock>>

\* Variant of update_notify: an observer already invoked by this call is
\* skipped (the list is treated as a set).
update_notify_dedup(p) ==
    /\ upc[p] = "notify"
    /\ uidx[p] <= Len(callbacks)
    /\ IF \E j \in DOMAIN log :
             log[j].call = ucall[p] /\ log[j].obs = callbacks[uidx[p]]
       THEN log' = log
       ELSE log' = Append(log, [cb |-> uidx[p], obs |-> callbacks[uidx[p]],
                                call |-> ucall[p],
                                current |-> usnap[p].current])
    /\ AfterCallback(p, callbacks[uidx[p]] = "bad")
    /\ UNCHANGED <<total, start_time, uload, current, callbacks, un, ucall,
                   usnap, nupdates, incs, gpc, gl, gret>>
    /\ UNCHANGED nonProgVars

\* for callback in self.callbacks: try: callback(progress)
update_notify(p) ==
    /\ upc[p] = "notify"
    /\ uidx[p] <= Len(callbacks)
    /\ log' = Append(log, [cb |-> uidx[p], obs |-> callbacks[uidx[p]],
                           call |-> ucall[p], current |-> usnap[p].current])
    /\ AfterCallback(p, callbacks[uidx[p]] = "bad")
    /\ UNCHANGED <<total, start_time, uload, current, callbacks, un, ucall, usnap,
                   nupdates, incs, gpc, gl, gret>>
    /\ UNCHANGED nonProgVars

\* The loop is exhausted: the with block releases the lock, update returns
\* and its locals are gone.
update_return(p) ==
    /\ upc[p] = "notify"
    /\ uidx[p] > Len(callbacks)
    /\ lock' = None
    /\ upc' = [upc EXCEPT ![p] = "idle"]
    /\ uret' = [uret EXCEPT ![p] = "returned"]
    /\ uncb' = [uncb EXCEPT ![p] = Len(callbacks)]
    /\ uidx' = [uidx EXCEPT ![p] = 0]
    /\ usnap' = [usnap EXCEPT ![p] = NoSnap]
    /\ UNCHANGED <<total, start_time, uload, current, callbacks, un, ucall,
                   nupdates, incs, log, gpc, gl, gret>>
    /\ UNCHANGED nonProgVars

\* get_progress: elapsed = time.time() - self.start_time
get_progress_elapsed ==
    /\ gpc = "idle"
    /\ \E t \in Clock : gl' = [NoSnap EXCEPT !.elapsed = t - start_time]
    /\ gpc' = "speed"
    /\ gret' = None
    /\ UNCHANGED <<total, start_time, uload, current, callbacks, lock, upc, un, ucall, uidx,
                   usnap, uret, uncb, nupdates, incs, log>>
    /\ UNCHANGED nonProgVars

\* speed = self.current / elapsed if elapsed > 0 else 0
get_progress_speed ==
    /\ gpc = "speed"
    /\ gl' = [gl EXCEPT !.speed = Speed(current, gl.elapsed)]
    /\ gpc' = "current"
    /\ UNCHANGED <<total, start_time, uload, current, callbacks, lock, upc, un, ucall, uidx,
                   usnap, uret, uncb, nupdates, incs, log, gret>>
    /\ UNCHANGED nonProgVars

\* 'current': self.current, 'total': self.total
get_progress_current ==
    /\ gpc = "current"
    /\ gl' = [gl EXCEPT !.current = current, !.total = total]
    /\ gpc' = "percentage"
    /\ UNCHANGED <<total, start_time, uload, current, callbacks, lock, upc, un, ucall, uidx,
                   usnap, uret, uncb, nupdates, incs, log, gret>>
    /\ UNCHANGED nonProgVars

\* Variant of get_progress_percentage: the reader also delivers the
\* dictionary it built to the first registered observer.
get_progress_percentage_notifies ==
    /\ gpc = "percentage"
    /\ gret' = Some([gl EXCEPT !.percentage = Percentage(current, total)])
    /\ gl' = NoSnap
    /\ gpc' = "idle"
    /\ IF callbacks # <<>>
       THEN log' = Append(log, [cb |-> 1, obs |-> callbacks[1], call |-> 0,
                                current |-> gl.current])
       ELSE log' = log
    /\ UNCHANGED <<total, start_time, uload, current, callbacks, lock, upc, un, ucall, uidx,
                   usnap, uret, uncb, nupdates, incs>>
    /\ UNCHANGED nonProgVars

\* 'percentage': (self.current / self.total * 100) if ... else 0; return {...}
get_progress_percentage ==
    /\ gpc = "percentage"
    /\ gret' = Some([gl EXCEPT !.percentage = Percentage(current, total)])
    /\ gl' = NoSnap
    /\ gpc' = "idle"
    /\ UNCHANGED <<total, start_time, uload, current, callbacks, lock, upc, un, ucall, uidx,
                   usnap, uret, uncb, nupdates, incs, log>>
    /\ UNCHANGED nonProgVars

(***************************************************************************)
(* Utility functions on strings.  A string is a sequence of characters.    *)
(***************************************************************************)
nonUtilVars == <<execVars, progVars, fsVars, rpcVars>>

\* c * n
Rep(c, n) == [k \in 1..n |-> c]

Range(s) == {s[k] : k \in DOMAIN s}

\* The characters str.strip() removes (those that occur in the inputs).
Whitespace == {" ", "\t", "\n", "\r"}

\* [<>:"/\\|?*]
Disallowed == {"<", ">", ":", "\"", "/", "\\", "|", "?", "*"}

\* [\x00-\x1f\x7f] (those that occur in the inputs)
ControlChars == {"\t", "\n", "\r"}

RECURSIVE lstrip(_)
lstrip(s) ==
    IF s # <<>> /\ Head(s) \in Whitespace THEN lstrip(Tail(s)) ELSE s

RECURSIVE rstrip(_)
rstrip(s) ==
    IF s # <<>> /\ s[Len(s)] \in Whitespace
    THEN rstrip(SubSeq(s, 1, Len(s) - 1))
    ELSE s

\* str.strip()
strip(s) == rstrip(lstrip(s))

\* s.find(c, start) with positions counted from 1; 0 when c does not occur.
find(s, c, start) ==
    IF \E k \in start..Len(s) : s[k] = c
    THEN CHOOSE k \in start..Len(s) :
             s[k] = c /\ \A j \in start..(k - 1) : s[j] # c
    ELSE 0

\* s.rfind(c) with positions counted from 1; 0 when c does not occur.
rfind(s, c) ==
    IF \E k \in DOMAIN s : s[k] = c
    THEN CHOOSE k \in DOMAIN s :
             s[k] = c /\ \A j \in (k + 1)..Len(s) : s[j] # c
    ELSE 0

\* sub in s
Contains(sub, s) ==
    \E i \in 0..(Len(s) - Len(sub)) : SubSeq(s, i + 1, i + Len(sub)) = sub

\* The characters of s as one string value (for formatted messages).
RECURSIVE Join(_)
Join(s) == IF s = <<>> THEN "" ELSE Head(s) \o Join(Tail(s))

\* os.path.splitext(p): the extension starts at the last dot of the last
\* path component, unless only dots precede it in that component.
splitext(p) ==
    LET sepIndex == rfind(p, "/")
        dotIndex == rfind(p, ".")
    IN  IF /\ dotIndex > sepIndex
           /\ \E k \in (sepIndex + 1)..(dotIndex - 1) : p[k] # "."
        THEN <<SubSeq(p, 1, dotIndex - 1), SubSeq(p, dotIndex, Len(p))>>
        ELSE <<p, <<>>>>

\* s[:n]
Prefix(s, n) == SubSeq(s, 1, IF Len(s) < n THEN Len(s) ELSE n)

\* clean_filename(filename)
clean_filename(filename) ==
    LET f1 == [k \in DOMAIN filename |->
                  IF filename[k] \in Disallowed THEN "_" ELSE filename[k]]
        f2 == SelectSeq(f1, LAMBDA c : c \notin ControlChars)
        f3 == IF Len(f2) > 255
              THEN LET ne == splitext(f2)
                   IN  Prefix(ne[1], 250) \o ne[2]
              ELSE f2
    IN  strip(f3)

Letters == Range(UpperCase) \cup Range(LowerCase)

Digits == {"0", "1", "2", "3", "4", "5", "6", "7", "8", "9"}

\* urllib.parse.scheme_chars
scheme_chars == Letters \cup Digits \cup {"+", "-", "."}

\* urlparse(url), as far as validate_url uses it: the scheme, the netloc,
\* and whether it raises ValueError("Invalid IPv6 URL") for a netloc with
\* an unmatched bracket.
urlparse(url) ==
    LET u == SelectSeq(lstrip(url), LAMBDA c : c \notin {"\t", "\r", "\n"})
        i == find(u, ":", 1)
        hasScheme ==
            /\ i > 1
            /\ u[1] \in Letters
            /\ \A k \in 1..(i - 1) : u[k] \in scheme_chars
        rest == IF hasScheme THEN SubSeq(u, i + 1, Len(u)) ELSE u
        delims == {k \in 3..Len(rest) : rest[k] \in {"/", "?", "#"}}
        delim == IF delims = {} THEN Len(rest) + 1
                 ELSE CHOOSE k \in delims : \A j \in delims : k <= j
        netloc == IF Len(rest) >= 2 /\ rest[1] = "/" /\ rest[2] = "/"
                  THEN SubSeq(rest, 3, delim - 1)
                  ELSE <<>>
    IN  [scheme |-> IF hasScheme THEN lower(SubSeq(u, 1, i - 1)) ELSE <<>>,
         netloc |-> netloc,
         raises |-> ("[" \in Range(netloc)) # ("]" \in Range(netloc))]

\* ['http', 'https', 'ftp', 'ftps']
Schemes ==
    { <<"h","t","t","p">>, <<"h","t","t","p","s">>,
      <<"f","t","p">>, <<"f","t","p","s">> }

MegaMarker == <<"m","e","g","a",".","n","z">>

\* What a call of validate_url yields: the tuple it returns, or the
\* exception that leaves it.
Returns(ok, reason) == [raised |-> FALSE, ok |-> ok, reason |-> reason]
Raises(msg) == [raised |-> TRUE, ok |-> FALSE, reason |-> msg]

\* Variant of validate_url: the netloc is not looked at.
validate_url_any_netloc(url) ==
    IF url = <<>> \/ strip(url) = <<>>
    THEN Returns(FALSE, "URL is empty")
    ELSE LET u == strip(url)
             parsed == urlparse(u)
         IN  IF parsed.raises
             THEN Raises("Invalid IPv6 URL")
             ELSE IF parsed.scheme \notin Schemes
             THEN IF Contains(MegaMarker, u)
                  THEN Returns(TRUE, "Valid Mega.nz URL")
                  ELSE Returns(FALSE, "Invalid URL scheme: "
                                          \o Join(parsed.scheme))
             ELSE Returns(TRUE, "Valid URL")

\* validate_url(url)
validate_url(url) ==
    IF url = <<>> \/ strip(url) = <<>>
    THEN Returns(FALSE, "URL is empty")
    ELSE LET u == strip(url)
             parsed == urlparse(u)
         IN  IF parsed.raises
             THEN Raises("Invalid IPv6 URL")
             ELSE IF parsed.scheme \notin Schemes
             THEN IF Contains(MegaMarker, u)
                  THEN Returns(TRUE, "Valid Mega.nz URL")
                  ELSE Returns(FALSE, "Invalid URL scheme: "
                                          \o Join(parsed.scheme))
             ELSE IF parsed.netloc = <<>>
             THEN Returns(FALSE, "Invalid URL: no domain")
             ELSE Returns(TRUE, "Valid URL")

\* ---- the strings the functions are applied to ----
\* Lengths of the stem of a file name, around the limits of clean_filename.
StemLens == {1, 247, 250, 251, 296}

\* Extensions of a file name (none, ".zip", ".torrent", ".tar.gz").
Extensions ==
    { <<>>, <<".","z","i","p">>,
      <<".","t","o","r","r","e","n","t">>,
      <<".","t","a","r",".","g","z">> }

Filenames ==
    {Rep("a", n) \o e : n \in StemLens, e \in Extensions}
        \cup { <<"a","<","b",">","c",":","d">>,
               <<"<",">",":","\"","/","\\","|","?","*">>,
               <<"a","\t","b">>,
               <<"a","\n",".","t","x","t">>,
               <<" ","a",".","t","x","t"," ">>,
               <<".","b","a","s","h","r","c">> }

\* What precedes the rest of a URL: a scheme and its colon, or nothing.
UrlHeads ==
    { <<>>,
      <<"h","t","t","p",":">>, <<"h","t","t","p","s",":">>,
      <<"f","t","p",":">>, <<"f","t","p","s",":">>,
      <<"H","T","T","P",":">>, <<"f","i","l","e",":">> }

\* What follows: with a host, without one, with a malformed one.
UrlTails ==
    { <<>>,
      <<"/","/">>,
      <<"/","/","a",".","b">>,
      <<"/","/","a",".","b","/","c","?","d">>,
      <<"/","/","/","c">>,
      <<"a",".","b">>,
      <<"/","/","m","e","g","a",".","n","z","/","c">>,
      <<"/","/","[">> }

\* Whitespace around a URL.
Paddings == {<<>>, <<" ">>, <<" ", "\t">>}

Urls == {p \o h \o t \o p : p \in Paddings, h \in UrlHeads, t \in UrlTails}

\* Both functions take any string.
Strings == Filenames \cup Urls

\* A caller applies clean_filename to the string.
clean_filename_apply ==
    /\ fn = "none"
    /\ fn' = "clean_filename"
    /\ out' = Some(clean_filename(arg))
    /\ UNCHANGED arg
    /\ UNCHANGED nonUtilVars

\* A caller applies validate_url to the string.
validate_url_apply ==
    /\ fn = "none"
    /\ fn' = "validate_url"
    /\ out' = Some(validate_url(arg))
    /\ UNCHANGED arg
    /\ UNCHANGED nonUtilVars

(***************************************************************************)
(* Specification of the utility functions: one of them is applied to a    *)
(* string.                                                                 *)
(***************************************************************************)
InitUtil ==
    /\ ExecInit
    /\ ProgInit(0)
    /\ FsInit
    /\ RpcInit
    /\ fn = "none"
    /\ arg \in Strings
    /\ out = None

NextUtil ==
    \/ clean_filename_apply
    \/ validate_url_apply

SpecUtil == InitUtil /\ [][NextUtil]_vars

(***************************************************************************)
(* Specification of the executor: a DownloadExecutor and its tasks         *)
(* (the executor never creates a DownloadProgress).                        *)
(***************************************************************************)
Init == ExecInit /\ ProgInit(0) /\ FsInit /\ RpcInit /\ UtilInit

AddTask == \E engine \in EngineInputs : add_task(engine)

Next ==
    \/ AddTask
    \/ execute_aria2
    \/ execute_wget
    \/ execute_curl
    \/ execute_mega

Spec == Init /\ [][Next]_vars

(***************************************************************************)
(* Specification of the progress tracker: one DownloadProgress(total),     *)
(* producer threads calling update and a reader calling get_progress.      *)
(***************************************************************************)
InitProgress ==
    /\ ExecInit
    /\ \E t \in Totals : ProgInit(t)
    /\ FsInit
    /\ RpcInit
    /\ UtilInit

AddCallback == \E o \in Observers : add_callback(o)

\* update() as called by a single producer thread (one transfer loop).
Update ==
    \E p \in {"p1"} :
        \/ \E n \in Amounts : update_call(p, n)
        \/ update_acquire(p)
        \/ update_load(p)
        \/ update_incr(p)
        \/ update_notify(p)
        \/ update_return(p)

GetProgress ==
    \/ get_progress_elapsed
    \/ get_progress_speed
    \/ get_progress_current
    \/ get_progress_percentage

NextProgress ==
    \/ AddCallback
    \/ Update
    \/ GetProgress

SpecProgress == InitProgress /\ [][NextProgress]_vars

(***************************************************************************)
(* Specification of concurrent producers: several threads call update on   *)
(* one DownloadProgress while observers are being registered.              *)
(***************************************************************************)
UpdateConcurrent ==
    \E p \in Producers :
        \/ \E n \in Amounts : update_call(p, n)
        \/ update_acquire(p)
        \/ update_load(p)
        \/ update_incr(p)
        \/ update_notify(p)
        \/ update_return(p)

NextConcurrent ==
    \/ AddCallback
    \/ UpdateConcurrent

SpecConcurrent == InitProgress /\ [][NextConcurrent]_vars

(***************************************************************************)
(* aria2 RPC functions                                                     *)
(***************************************************************************)
nonRpcVars == <<execVars, progVars, fsVars, utilVars>>

\* The functions a caller may invoke.
RpcFunctions ==
    {"aria2_rpc_call", "get_aria2_version", "add_aria2_download",
     "get_aria2_status"}

\* Python objects a JSON document decodes to: a dict is a function from its
\* keys to objects, a string is its text.
Dict(items) == [kind |-> "dict", items |-> items, text |-> ""]
Str(text) == [kind |-> "str", items |-> <<>>, text |-> text]

\* bool(v)
Truthy(v) == IF v.kind = "dict" THEN DOMAIN v.items # {} ELSE v.text # ""

\* response.status_code values the server may answer with.
StatusCodes == {200, 404, 500}

\* Bodies the server may answer with: JSON objects, JSON null, and a body
\* that is not JSON.
Bodies ==
    { "{\"result\":{\"version\":\"1.36.0\"}}",
      "{\"result\":\"2089b05ecca3d829\"}",
      "{\"error\":\"Unauthorized\"}",
      "{}",
      "null",
      "<html>Bad Gateway</html>" }

\* Whether response.json() decodes the body (it raises ValueError if not).
Decodable(body) == body # "<html>Bad Gateway</html>"

\* response.json() of a decodable body; JSON null decodes to None.
json(body) ==
    CASE body = "{\"result\":{\"version\":\"1.36.0\"}}" ->
             Some(Dict([result |-> Dict([version |-> Str("1.36.0")])]))
      [] body = "{\"result\":\"2089b05ecca3d829\"}" ->
             Some(Dict([result |-> Str("2089b05ecca3d829")]))
      [] body = "{\"error\":\"Unauthorized\"}" ->
             Some(Dict([error |-> Str("Unauthorized")]))
      [] body = "{}" -> Some(Dict(<<>>))
      [] body = "null" -> None

\* A caller invokes one of the functions; each of them starts by entering
\* aria2_rpc_call.
rpc_call(f) ==
    /\ rpc = "idle"
    /\ rop' = f
    /\ rpc' = "import"
    /\ response' = None
    /\ rresult' = None
    /\ rret' = <<>>
    /\ UNCHANGED nonRpcVars

\* try: import requests   (ImportError when the library is missing)
aria2_rpc_call_import ==
    /\ rpc = "import"
    /\ \/ rpc' = "post"
       \/ rpc' = "except"
    /\ UNCHANGED <<rop, response, rresult, rret>>
    /\ UNCHANGED nonRpcVars

\* response = requests.post(rpc_url, json=payload, timeout=5): an answer, or
\* an exception (connection refused, timeout)
aria2_rpc_call_post ==
    /\ rpc = "post"
    /\ \/ /\ \E s \in StatusCodes, b \in Bodies :
                response' = Some([status_code |-> s, body |-> b])
          /\ rpc' = "status"
       \/ /\ rpc' = "except"
          /\ UNCHANGED response
    /\ UNCHANGED <<rop, rresult, rret>>
    /\ UNCHANGED nonRpcVars

\* if response.status_code == 200:
aria2_rpc_call_status ==
    /\ rpc = "status"
    /\ IF response[1].status_code = 200
       THEN rpc' = "json"
       ELSE rpc' = "return_none"
    /\ UNCHANGED <<rop, response, rresult, rret>>
    /\ UNCHANGED nonRpcVars

\* return response.json()
aria2_rpc_call_json ==
    /\ rpc = "json"
    /\ IF Decodable(response[1].body)
       THEN /\ rresult' = json(response[1].body)
            /\ rpc' = "caller"
       ELSE /\ rpc' = "except"
            /\ UNCHANGED rresult
    /\ UNCHANGED <<rop, response, rret>>
    /\ UNCHANGED nonRpcVars

\* Variant of aria2_rpc_call_except: the handler lets the exception go, so
\* it leaves aria2_rpc_call and the function that called it.
aria2_rpc_call_except_reraise ==
    /\ rpc = "except"
    /\ rpc' = "idle"
    /\ rret' = <<"raised">>
    /\ UNCHANGED <<rop, response, rresult>>
    /\ UNCHANGED nonRpcVars

\* except Exception as e: pass
aria2_rpc_call_except ==
    /\ rpc = "except"
    /\ rpc' = "return_none"
    /\ UNCHANGED <<rop, response, rresult, rret>>
    /\ UNCHANGED nonRpcVars

\* return None
aria2_rpc_call_return_none ==
    /\ rpc = "return_none"
    /\ rresult' = None
    /\ rpc' = "caller"
    /\ UNCHANGED <<rop, response, rret>>
    /\ UNCHANGED nonRpcVars

aria2_rpc_call ==
    \/ aria2_rpc_call_import
    \/ aria2_rpc_call_post
    \/ aria2_rpc_call_status
    \/ aria2_rpc_call_json
    \/ aria2_rpc_call_except
    \/ aria2_rpc_call_return_none

\* if result and 'result' in result:
HasResult(r) ==
    r # None /\ Truthy(r[1]) /\ "result" \in DOMAIN r[1].items

\* A direct caller of aria2_rpc_call receives what it returned.
rpc_direct_return ==
    /\ rpc = "caller"
    /\ rop = "aria2_rpc_call"
    /\ rret' = <<"returned", rresult>>
    /\ rpc' = "idle"
    /\ UNCHANGED <<rop, response, rresult>>
    /\ UNCHANGED nonRpcVars

\* return result['result'].get('version')  /  return None
\* (.get raises AttributeError when result['result'] is not a dict)
get_aria2_version ==
    /\ rpc = "caller"
    /\ rop = "get_aria2_version"
    /\ IF HasResult(rresult)
       THEN LET r == rresult[1].items["result"]
            IN  IF r.kind = "dict"
                THEN rret' = <<"returned",
                               IF "version" \in DOMAIN r.items
                               THEN Some(r.items["version"]) ELSE None>>
                ELSE rret' = <<"raised">>
       ELSE rret' = <<"returned", None>>
    /\ rpc' = "idle"
    /\ UNCHANGED <<rop, response, rresult>>
    /\ UNCHANGED nonRpcVars

\* return result['result']  /  return None
ReturnResult(f) ==
    /\ rpc = "caller"
    /\ rop = f
    /\ IF HasResult(rresult)
       THEN rret' = <<"returned", Some(rresult[1].items["result"])>>
       ELSE rret' = <<"returned", None>>
    /\ rpc' = "idle"
    /\ UNCHANGED <<rop, response, rresult>>
    /\ UNCHANGED nonRpcVars

add_aria2_download == ReturnResult("add_aria2_download")

get_aria2_status == ReturnResult("get_aria2_status")

(***************************************************************************)
(* Specification of the executor for every way of constructing it:         *)
(* DownloadExecutor() and DownloadExecutor(download_dir).                  *)
(***************************************************************************)
InitDir ==
    /\ ExecInit
    /\ ProgInit(0)
    /\ \E a \in DirArgs : DownloadExecutor_init(Root, a)
    /\ RpcInit
    /\ UtilInit

SpecDir == InitDir /\ [][Next]_vars

(***************************************************************************)
(* Specification of the RPC functions: a caller invokes them one after     *)
(* the other against a server that answers, fails or is absent.            *)
(***************************************************************************)
RpcCall == \E f \in RpcFunctions : rpc_call(f)

NextRpc ==
    \/ RpcCall
    \/ aria2_rpc_call
    \/ rpc_direct_return
    \/ get_aria2_version
    \/ add_aria2_download
    \/ get_aria2_status

SpecRpc == Init /\ [][NextRpc]_vars

(***************************************************************************)
(* Properties of the executor (checked under Spec)                         *)
(***************************************************************************)
Terminal(t) == t.status \in {"completed", "failed"}

\* A call has returned to its caller and no other has started since.
Returned == pc = "idle" /\ ret # "none"

\* A string value that is present and not empty.
NonEmpty(e) == e # None /\ e # Some("")

\* C1: in every reachable state of a DownloadTask, also between two
\* statements of an execute_* call, task.error is set if and only if
\* task.status is "failed".
C1_ErrorIffFailed ==
    \A i \in DOMAIN tasks :
        (tasks[i].error # None) <=> (tasks[i].status = "failed")

\* C2: in every reachable state of a DownloadTask, progress = 100 implies
\* status = "completed" (for execute_aria2: whatever lines the process
\* printed and whatever exit code followed).
C2_FullProgressIsCompleted ==
    \A i \in DOMAIN tasks :
        tasks[i].progress = 100 => tasks[i].status = "completed"

\* C3: terminal states are absorbing: once a call has left a task
\* "completed" or "failed", no later operation of the executor (another
\* execute_* call on it included) changes the task's status, progress or error.
C3_TerminalAbsorbing ==
    [][\A i \in DOMAIN tasks :
          (pc = "idle" /\ Terminal(tasks[i])) => tasks'[i] = tasks[i]]_vars

\* C4: whenever an execute_* call leaves its task "failed", task.error is a
\* non-empty string, whatever the engine and the cause of the failure.
C4_FailedHasNonEmptyError ==
    (Returned /\ tasks[cur].status = "failed") => NonEmpty(tasks[cur].error)

\* The diagnostic text captured from the process, if there is any.
HasDiagnostic(r) == r.stderr # None /\ r.stderr # Some("")

\* C5: when the external process exits with code 0 the call ends with status
\* "completed" and progress 100; when it exits nonzero the call ends with
\* status "failed" and error equal to the captured diagnostic output, or
\* naming the numeric exit code when no diagnostic text is available.
C5_ExitCodeMapping ==
    (Returned /\ result # None) =>
        LET r == result[1]
            t == tasks[cur]
        IN  IF r.returncode = 0
            THEN t.status = "completed" /\ t.progress = 100
            ELSE /\ t.status = "failed"
                 /\ IF HasDiagnostic(r)
                    THEN t.error = r.stderr
                    ELSE t.error \in { Some(ExitCodeMsg(r.returncode)),
                                       Some(ToString(r.returncode)) }

\* C6: no execute_* call lets an exception escape: an exception raised while
\* launching or communicating with the process is caught, and the call
\* returns False with status "failed" and error = str(e).
C6_ExceptionsCaught ==
    /\ ret # "raised"
    /\ (pc = "idle" /\ exc # None) =>
          /\ ret = "False"
          /\ tasks[cur].status = "failed"
          /\ tasks[cur].error = exc

\* Witness of C6: execute_mega returned after subprocess raised.
C6_Witness ==
    /\ Returned
    /\ adapter = "mega"
    /\ exc = Some("[Errno 2] No such file or directory")
    /\ tasks[cur].error = exc

\* C7: executing a task whose engine is not one of the fixed set launches no
\* external process and leaves the task "failed" with a non-empty error.
C7_UnknownEngineRejected ==
    (adapter # "none" /\ tasks[cur].engine \notin ENGINES) =>
        /\ launched = {}
        /\ Returned => /\ tasks[cur].status = "failed"
                       /\ NonEmpty(tasks[cur].error)

\* The probe of execute_mega found no megadl.
MegadlAbsent == adapter = "mega" /\ probe # None /\ probe # Some(0)

Invocations(k, c) == {j \in DOMAIN log : log[j].cb = k /\ log[j].call = c}

\* C9: an observer that raises never keeps the observers registered after
\* it from being notified, and update never raises to its caller: when an
\* update call returns, every registered callback has been invoked exactly
\* once by that call.
C9_RaisingObserverIsolated ==
    \A p \in Producers :
        /\ uret[p] # "raised"
        /\ uret[p] = "returned" =>
              \A k \in 1..uncb[p] : Cardinality(Invocations(k, ucall[p])) = 1

\* Witness of C9: a raising observer is registered first, a well-behaved one
\* after it, and an update call that notified both has returned.
C9_Witness ==
    /\ Len(callbacks) >= 2
    /\ callbacks[1] = "bad"
    /\ callbacks[2] = "good"
    /\ \E p \in Producers :
          /\ uret[p] = "returned"
          /\ uncb[p] >= 2
          /\ Invocations(1, ucall[p]) # {}
          /\ Invocations(2, ucall[p]) # {}

\* The increments applied so far are exactly N = total calls of update(1).
TotalOnes == total > 0 /\ Len(incs) = total /\ \A k \in DOMAIN incs : incs[k] = 1

Hundred == <<100, 1>>

\* C10: a get_progress() that returns after N = total > 0 sequential
\* update(1) calls reports percentage 100; with total = 0 it reports
\* percentage 0 after any sequence of update calls.
C10_Percentage ==
    [][(gpc = "percentage" /\ gpc' = "idle") =>
          /\ TotalOnes => gret'[1].percentage = Hundred
          /\ total = 0 => gret'[1].percentage = Zero]_vars

\* Witness of C10: total = 2, two update(1) calls made, 100 reported.
C10_Witness ==
    /\ total = 2
    /\ incs = <<1, 1>>
    /\ gret # None
    /\ gret[1].percentage = Hundred
    /\ gret[1].current = 2

\* Invocations of observer o made by update call number c.
InvocationsOf(o, c) == {j \in DOMAIN log : log[j].obs = o /\ log[j].call = c}

\* C11: within one update call the callbacks are invoked in registration
\* order, one invocation per registration (an observer registered k times is
\* invoked k times), and the rounds of successive update calls follow each
\* other in the order the single producer made the calls.
C11_NotificationOrder ==
    /\ \A j \in DOMAIN log :
          /\ log[j].obs = callbacks[log[j].cb]
          /\ IF j > 1 /\ log[j - 1].call = log[j].call
             THEN log[j].cb = log[j - 1].cb + 1
             ELSE /\ log[j].cb = 1
                  /\ j > 1 => log[j - 1].call < log[j].call
    /\ \A p \in Producers :
          uret[p] = "returned" =>
              \A o \in Observers :
                  Cardinality(InvocationsOf(o, ucall[p]))
                      = Cardinality({k \in 1..uncb[p] : callbacks[k] = o})

\* Witness of C11: the same observer is registered twice and the second of
\* two update calls has returned after invoking it twice.
C11_Witness ==
    /\ callbacks = <<"good", "good">>
    /\ uret["p1"] = "returned"
    /\ ucall["p1"] = 2
    /\ Cardinality(InvocationsOf("good", 1)) = 2
    /\ Cardinality(InvocationsOf("good", 2)) = 2

\* C12: current is a monotonically non-decreasing counter: no step of
\* update lowers it, and the 'current' values delivered to the observers
\* never decrease from one delivery to the next.
C12_CurrentMonotonic ==
    [][/\ current' >= current
       /\ \A j \in DOMAIN log' :
             j > 1 => log'[j].current >= log'[j - 1].current]_vars

\* C13: get_progress is read-only.  A step of get_progress, taken alone or
\* between the steps of an update in progress, leaves current, total,
\* start_time, the observer list and the lock as they are and invokes no
\* observer (the log of invocations does not grow).
C13_GetProgressReadOnly ==
    [][gpc' # gpc =>
          UNCHANGED <<current, total, start_time, callbacks, lock, log,
                      incs>>]_vars

\* Witness of C13: get_progress has returned a dictionary while an update
\* holding the lock is in the middle of its notification round.
C13_Witness ==
    /\ gret # None
    /\ gpc = "idle"
    /\ upc["p1"] = "notify"
    /\ lock = Some("p1")
    /\ Len(callbacks) = 2
    /\ uidx["p1"] = 2
    /\ gret[1].current = current
    /\ current = 1

(***************************************************************************)
(* Properties of the reader (checked under SpecProgress)                   *)
(***************************************************************************)
\* C21: every dictionary returned by get_progress is internally consistent,
\* also when update runs concurrently: its 'percentage' is its own
\* 'current' / 'total' * 100 (0 when total is 0) and its 'speed' is its own
\* 'current' / 'elapsed' (0 when elapsed is 0), so all derived fields come
\* from one value of current.  (Stated for trackers whose update calls all
\* carry a positive n, the use the tracker is made for.)
C21_SnapshotConsistent ==
    (gret # None /\ \A p \in Producers : un[p] >= 0) =>
        /\ gret[1].percentage = Percentage(gret[1].current, gret[1].total)
        /\ gret[1].speed = Speed(gret[1].current, gret[1].elapsed)

(***************************************************************************)
(* Properties of the executor, continued (checked under Spec)              *)
(***************************************************************************)
\* C18: whenever an execute_* call launches an external process (the
\* `which megadl` probe of execute_mega included), the task it runs is
\* already "downloading": no process is started for a task still "pending".
C18_DownloadingBeforeLaunch ==
    [][(launched' # launched /\ launched' # {}) =>
          /\ tasks[cur].status = "downloading"
          /\ tasks'[cur].status = "downloading"]_vars

\* Witness of C18: execute_mega has run its probe, and nothing else, for a
\* task that is downloading.
C18_Witness ==
    /\ adapter = "mega"
    /\ pc = "launch"
    /\ launched = {"which"}
    /\ probe = Some(0)
    /\ tasks[cur].status = "downloading"

\* C19: an execute_* call returns True exactly when it leaves the task
\* "completed" and False exactly when it leaves it "failed"; it never
\* returns leaving the task "pending" or "downloading".
C19_ReturnAgreesWithStatus ==
    Returned =>
        /\ ret \in {"True", "False"}
        /\ (ret = "True") <=> (tasks[cur].status = "completed")
        /\ (ret = "False") <=> (tasks[cur].status = "failed")

\* Witness of C19: execute_mega found megadl, megadl exited with a non-zero
\* code, and the call returned False with the task failed.
C19_Witness ==
    /\ Returned
    /\ adapter = "mega"
    /\ launched = {"which", "megadl"}
    /\ result # None
    /\ result[1].returncode = 1
    /\ ret = "False"
    /\ tasks[cur].status = "failed"

(***************************************************************************)
(* Properties of concurrent updates (checked under SpecConcurrent)         *)
(***************************************************************************)
RECURSIVE SumSeq(_)
SumSeq(s) == IF s = <<>> THEN 0 ELSE Head(s) + SumSeq(Tail(s))

\* No update call is in progress.
AllIdle == \A p \in Producers : upc[p] = "idle"

\* C20: when several threads call update concurrently, no increment is
\* lost: once all calls have finished, every call has been applied and
\* current is the initial value 0 plus the sum of all n.  The notification
\* rounds never interleave: the invocations made by one update call are
\* consecutive and all carry that call's snapshot.
C20_ConcurrentUpdate ==
    /\ AllIdle => /\ Len(incs) = nupdates
                  /\ current = SumSeq(incs)
    /\ \A i, k \in DOMAIN log :
          (i < k /\ log[i].call = log[k].call) =>
              \A j \in i..k : /\ log[j].call = log[i].call
                              /\ log[j].current = log[i].current

\* Witness of C20: two threads have each finished an update(1), the one of
\* p2 first, and both observers were notified by each.
C20_Witness ==
    /\ AllIdle
    /\ ucall = [p1 |-> 2, p2 |-> 1]
    /\ uret = [p1 |-> "returned", p2 |-> "returned"]
    /\ incs = <<1, 1>>
    /\ current = 2
    /\ Len(callbacks) = 2
    /\ Len(log) = 4

(***************************************************************************)
(* Properties of the RPC functions (checked under SpecRpc)                 *)
(***************************************************************************)
\* aria2_rpc_call has returned to the function that called it.
CallReturned == rpc = "caller" \/ (rpc = "idle" /\ rret # <<>>)

\* The server answered 200 with a body that decodes.
Answered200 ==
    /\ response # None
    /\ response[1].status_code = 200
    /\ Decodable(response[1].body)

\* C14: aria2_rpc_call never raises to its caller: no function ends with an
\* exception unless the call had handed it a result; the call returns the
\* decoded body when the status is 200 and None on every other outcome;
\* and each of the three functions built on it returns None when it does.
C14_RpcNeverRaises ==
    /\ rret = <<"raised">> => rresult # None
    /\ CallReturned =>
          rresult = IF Answered200 THEN json(response[1].body) ELSE None
    /\ (rpc = "idle" /\ rop # "none" /\ rresult = None) =>
          rret = <<"returned", None>>

\* Witness of C14: the server answered 200 with a body that is not JSON,
\* and get_aria2_version returned None.
C14_Witness ==
    /\ rop = "get_aria2_version"
    /\ rpc = "idle"
    /\ response # None
    /\ response[1].status_code = 200
    /\ ~Decodable(response[1].body)
    /\ rret = <<"returned", None>>

(***************************************************************************)
(* Properties of the output directory (checked under SpecDir)              *)
(***************************************************************************)
\* C15: the output directory of the executor exists whenever an execute_*
\* call launches an external process, whether the executor was constructed
\* with the default directory or with a caller-supplied download_dir; and
\* ensuring a directory that exists changes nothing.
C15_DirectoryCreated ==
    [][/\ launched' # launched => download_dir \in dirs
       /\ ensure_dir(dirs, DEFAULT_DOWNLOAD_DIR) = dirs]_vars

(***************************************************************************)
(* Properties of the utility functions (checked under SpecUtil)            *)
(***************************************************************************)
\* What replacing every disallowed or control character by "_" gives.
Replaced(s) ==
    [k \in DOMAIN s |->
        IF s[k] \in Disallowed \cup ControlChars THEN "_" ELSE s[k]]

\* C16: for every file name, clean_filename returns a name of at most 255
\* characters; when it shortens the name, the extension of the original is
\* kept; and every disallowed or control character has been replaced by an
\* underscore (names that need no shortening and no stripping come back
\* with exactly those replacements, as "a<b>c:d" -> "a_b_c_d").
C16_CleanFilename ==
    fn = "clean_filename" =>
        /\ Len(out[1]) <= 255
        /\ Len(arg) > 255 => splitext(out[1])[2] = splitext(arg)[2]
        /\ \A k \in DOMAIN out[1] :
              out[1][k] \notin Disallowed \cup ControlChars
        /\ (Len(arg) <= 255 /\ strip(arg) = arg) => out[1] = Replaced(arg)

\* The stripped string starts with one of the recognized schemes (in any
\* letter case) and a colon.
HasRecognizedScheme(s) ==
    \E sc \in Schemes :
        LET t == strip(s)
        IN  /\ Len(t) > Len(sc)
            /\ lower(SubSeq(t, 1, Len(sc))) = sc
            /\ t[Len(sc) + 1] = ":"

HostOf(s) == urlparse(strip(s)).netloc

====
